---- MODULE Spec2Model ----
(***************************************************************************)
(* Model of the DMA core of lpc8xx-hal: channel typestates, the shared     *)
(* descriptor table, the Source/Dest endpoints and the register protocol   *)
(* of Channel::start_transfer (src/src/dma/channels.rs), together with the *)
(* static-buffer endpoint of src/src/dma/buffer.rs.                        *)
(***************************************************************************)
EXTENDS Integers, Sequences, FiniteSets, TLC

\* ------------------------------------------------------------------ bounds

\* Number of channels modelled (the 82x variant has 18, the 845 has 25).
NumChannels == 2

\* Cap on the number of start_transfer calls in one behaviour.
MaxCalls == 2

\* Cap on the number of start_transfer calls when one channel is used over
\* and over.
MaxDeepCalls == 3

\* Largest descriptor table given to Channels::new.
MaxTableLen == 40

\* Largest buffer length (besides the named ones) given to the buffer queries.
MaxProbeLen == 16

\* Number of GPIO pins modelled (the 82x has 29).
NumPins == 4

\* ------------------------------------------------------- program constants

\* "Panics, if any buffer passed to this function has a length larger than 1024."
MaxUnits == 1024

\* XFERCOUNT is a 10 bit field of XFERCFG.
XferCountBits == 10

\* The channels! invocation of the 82x lists 18 channels, that of the 845 lists 25.
Channels82x == 18

Channels845 == 25

\* "Assumes the internal oscillator runs at 12 MHz"
OscHz == 12000000

\* let calc = baudrate * 20 ("We want something with 5% tolerance")
ToleranceFactor == 20

ChannelIds == 0 .. (NumChannels - 1)

\* GPIO pins modelled (PIO0_0 upwards).
PinIds == 0 .. (NumPins - 1)

\* ------------------------------------------------------------ Option<T>

None == << >>

Some(x) == << x >>

IsSome(o) == Len(o) = 1

Unwrap(o) == o[1]

\* ------------------------------------------------- static buffer (&[u8])

\* fn is_empty(&self) -> bool { self.len() == 0 }
buffer_is_empty(len) == len = 0

\* fn increment(&self) -> SRCINC_A { SRCINC_A::WIDTH_X_1 }
buffer_increment == "WIDTH_X_1"

buffer_transfer_count_OffByOne(len) == len

\* fn transfer_count(&self) -> usize { self.len() - 1 }
\* The mathematical value: it is a usize exactly when it is not negative,
\* and a negative value stands for the subtraction having underflowed.
buffer_transfer_count(len) == len - 1

buffer_end_addr_OnePastEnd(base, len) == base + len

\* fn end_addr(&self) -> *const u8 { self.as_ptr().add(self.transfer_count()) }
buffer_end_addr(base, len) == base + buffer_transfer_count(len)

\* What a usize computation yields in the build: its value; when it
\* underflowed, a panic with overflow checks on and the value wrapped
\* modulo 2^32 (kept as its negative representative) with them off.
UsizeOutcome(x, overflowChecks) ==
    IF x >= 0 THEN [tag |-> "ok", value |-> x]
    ELSE IF overflowChecks THEN [tag |-> "panic", value |-> 0]
    ELSE [tag |-> "wrapped", value |-> x]

\* ------------------------------------------------------ Source and Dest

\* An endpoint is a static memory region (kind "mem": base and len) or a
\* fixed peripheral register (kind "periph": base is the register address,
\* done tells that the peripheral can supply / accept nothing more).
MemEndpoint(base, len) ==
    [kind |-> "mem", base |-> base, len |-> len, done |-> FALSE]

PeriphEndpoint(addr, done) ==
    [kind |-> "periph", base |-> addr, len |-> 0, done |-> done]

NoEndpoint == [kind |-> "none", base |-> 0, len |-> 0, done |-> FALSE]

\* Addresses: two RAM buffers, the USART0 RXDAT and TXDAT registers.
BufBases == {268435456, 268436480}

RxDatAddr == 1074151444

TxDatAddr == 1074151452

\* Lengths of the buffers handed to start_transfer.
CallLens == {0, 1, 10, MaxUnits, MaxUnits + 1}

Sources ==
    {MemEndpoint(268435456, l) : l \in CallLens}
        \cup {PeriphEndpoint(RxDatAddr, d) : d \in BOOLEAN}

Dests ==
    {MemEndpoint(268436480, l) : l \in {0, 4, MaxUnits + 1}}
        \cup {PeriphEndpoint(TxDatAddr, d) : d \in BOOLEAN}

source_is_valid(s) == IF s.kind = "mem" THEN s.len <= MaxUnits ELSE TRUE

source_is_empty(s) == IF s.kind = "mem" THEN buffer_is_empty(s.len) ELSE s.done

source_increment(s) == IF s.kind = "mem" THEN buffer_increment ELSE "NO_INCREMENT"

source_transfer_count(s) ==
    IF s.kind = "mem" THEN Some(buffer_transfer_count(s.len)) ELSE None

source_end_addr(s) ==
    IF s.kind = "mem" THEN buffer_end_addr(s.base, s.len) ELSE s.base

dest_is_valid(d) == IF d.kind = "mem" THEN d.len <= MaxUnits ELSE TRUE

dest_is_full(d) == IF d.kind = "mem" THEN d.len = 0 ELSE d.done

dest_increment(d) == IF d.kind = "mem" THEN "WIDTH_X_1" ELSE "NO_INCREMENT"

dest_transfer_count(d) ==
    IF d.kind = "mem" THEN Some(d.len - 1) ELSE None

dest_end_addr(d) ==
    IF d.kind = "mem" THEN d.base + (d.len - 1) ELSE d.base

\* ------------------------------------------------------------- channels

INDEX(k) == k

FLAG_NextChannel(k) == 2 ^ (INDEX(k) + 1)

FLAG_AllChannels(k) == (2 ^ NumChannels) - 1

\* const FLAG: u32 = 0x1 << Self::INDEX (INDEX is at most 24: no bit is lost)
FLAG(k) == 2 ^ INDEX(k)

\* The bit positions that are 1 in a register value (bits 0 to 30).
BitsOf(v) == {i \in 0 .. 30 : (v \div (2 ^ i)) % 2 = 1}

ChannelOrder_Reversed(n) == [i \in 1 .. n |-> n - i]

\* The channels! invocation lists the channels from lowest to highest: the
\* i-th field of Channels is the channel with index i - 1.
ChannelOrder(n) == [i \in 1 .. n |-> i - 1]

next_Cycling(pos, tableLen) ==
    IF tableLen = 0 THEN None ELSE Some(pos % tableLen)

\* descriptors.next(): the entry at the iterator's position, if there is one.
next(pos, tableLen) == IF pos < tableLen THEN Some(pos) ELSE None

\* The fields of Channels from the i-th on: each takes descriptors.next()
\* and unwraps it, which panics once the table is exhausted.
RECURSIVE NewFrom(_, _, _, _)
NewFrom(order, i, tableLen, slots) ==
    IF i > Len(order) THEN [tag |-> "ok", slots |-> slots]
    ELSE IF ~IsSome(next(i - 1, tableLen)) THEN [tag |-> "panic", slots |-> slots]
    ELSE NewFrom(order, i + 1, tableLen,
                 slots @@ (order[i] :> Unwrap(next(i - 1, tableLen))))

\* Channels::new(descriptors) for a table of tableLen entries and n channels:
\* the slot of every channel, or the panic.
Channels_new(tableLen, n) == NewFrom(ChannelOrder(n), 1, tableLen, << >>)

DescriptorSlot_Shifted(k) == (k + 1) % NumChannels

\* Channels::new hands out the table's entries in the order of the channels;
\* the table has one entry per channel.
DescriptorSlot(k) == Channels_new(NumChannels, NumChannels).slots[k]

CfgReset == [periphreqen |-> FALSE, hwtrigen |-> FALSE, chpriority |-> 0]

\* self.cfg.write(...)
CfgValue == [periphreqen |-> TRUE, hwtrigen |-> FALSE, chpriority |-> 0]

XfercfgReset ==
    [cfgvalid |-> FALSE, reload |-> FALSE, swtrig |-> FALSE, clrtrig |-> FALSE,
     setinta |-> FALSE, setintb |-> FALSE, width |-> "BIT_8",
     srcinc |-> "NO_INCREMENT", dstinc |-> "NO_INCREMENT", xfercount |-> 0]

XfercfgValue_SwappedIncrements(s, d, transfer_count) ==
    [cfgvalid |-> TRUE, reload |-> FALSE, swtrig |-> FALSE, clrtrig |-> TRUE,
     setinta |-> FALSE, setintb |-> FALSE, width |-> "BIT_8",
     srcinc |-> dest_increment(d), dstinc |-> source_increment(s),
     xfercount |-> transfer_count % (2 ^ XferCountBits)]

\* self.xfercfg.write(...): every field in one register value.  A flag
\* field holds the bit written: w.clrtrig().cleared() writes CLRTRIG = 1
\* (the trigger is cleared when the descriptor is exhausted), while
\* reload().disabled(), swtrig().not_set() and setinta/b().no_effect() write 0.
XfercfgValue(s, d, transfer_count) ==
    [cfgvalid |-> TRUE, reload |-> FALSE, swtrig |-> FALSE, clrtrig |-> TRUE,
     setinta |-> FALSE, setintb |-> FALSE, width |-> "BIT_8",
     srcinc |-> source_increment(s), dstinc |-> dest_increment(d),
     xfercount |-> transfer_count % (2 ^ XferCountBits)]

DescriptorReset == [source_end |-> 0, dest_end |-> 0]

AssertsHold_SourceOnly(s, d) == source_is_valid(s)

\* assert!(source.is_valid()); assert!(dest.is_valid());
AssertsHold(s, d) == source_is_valid(s) /\ dest_is_valid(d)

IsDegenerate_SourceOnly(s, d) == source_is_empty(s)

IsDegenerate_DestOnly(s, d) == dest_is_full(d)

\* if source.is_empty() || dest.is_full() { return Transfer::new(..) }
IsDegenerate(s, d) == source_is_empty(s) \/ dest_is_full(d)

MatchCount_MemToMem(source_count, dest_count) ==
    IF IsSome(source_count) THEN source_count ELSE dest_count

MatchCount_NoPacing(source_count, dest_count) ==
    IF IsSome(source_count) /\ ~IsSome(dest_count) THEN source_count
    ELSE IF IsSome(dest_count) /\ ~IsSome(source_count) THEN dest_count
    ELSE Some(0)

\* match (source_count, dest_count): the count, or None for the panic arm.
MatchCount(source_count, dest_count) ==
    IF IsSome(source_count) /\ ~IsSome(dest_count) THEN source_count
    ELSE IF ~IsSome(source_count) /\ IsSome(dest_count) THEN dest_count
    ELSE None

StepOrder_TriggerFirst ==
    << "trig", "cfg", "xfercfg", "desc_src", "desc_dst", "enable" >>

StepOrder_TriggerBeforeDescriptor ==
    << "cfg", "xfercfg", "enable", "trig", "desc_src", "desc_dst" >>

StepOrder_EnableLast ==
    << "cfg", "xfercfg", "desc_src", "desc_dst", "trig", "enable" >>

\* The hardware writes of start_transfer, in program order.
StepOrder == << "cfg", "xfercfg", "desc_src", "desc_dst", "enable", "trig" >>

StepIndex(p) == CHOOSE i \in 1 .. Len(StepOrder) : StepOrder[i] = p

FirstStep == StepOrder[1]

\* Where control goes after the write p: the next write, or the return.
AfterStep(p) ==
    IF StepIndex(p) = Len(StepOrder) THEN "ret" ELSE StepOrder[StepIndex(p) + 1]

\* ---------------------------------------------------------------- state

VARIABLES
    handle,       \* the DMA peripheral is enabled: a Handle exists
    state,        \* per channel: the typestate, "Disabled" or "Enabled"
    owner,        \* per channel: who holds it: "user", "call", "transfer", "lost"
    pc,           \* per channel: the position inside start_transfer
    src,          \* per channel: the source of the current or last call
    dst,          \* per channel: the destination of the current or last call
    count,        \* per channel: the local transfer_count of the call
    outcome,      \* per channel: "none", "transfer" (returned) or "panic"
    trace,        \* per channel: the effects of the current or last call, in order
    pre,          \* the registers as they were when the latest call began
    calls,        \* number of start_transfer calls so far
    CFG,          \* per channel: the CFG register
    XFERCFG,      \* per channel: the XFERCFG register
    descriptors,  \* the descriptor table, by slot
    descriptor,   \* per channel: the table slot its descriptor reference points to
    enableset0,   \* ENABLESET0: the bits that are set
    settrig0,     \* SETTRIG0: the bits that are set
    active0,      \* ACTIVE0: the bits that are set
    direction,    \* per GPIO pin: the typestate, "Unknown" or "Output"
    DIRSET0,      \* GPIO direction: the bits that are set (outputs)
    PIN0,         \* GPIO port: the bits that are set (pins at HIGH)
    lastCall,     \* per GPIO pin: the last of set_high / set_low, or "none"
    probe         \* the last query made to a static buffer, and its result

dmaVars ==
    << handle, state, owner, pc, src, dst, count, outcome, trace, pre, calls,
       CFG, XFERCFG, descriptors, descriptor, enableset0, settrig0, active0 >>

gpioVars == << direction, DIRSET0, PIN0, lastCall >>

vars == << dmaVars, gpioVars, probe >>

Registers ==
    [cfg |-> CFG, xfercfg |-> XFERCFG, desc |-> descriptors,
     ena |-> enableset0, trig |-> settrig0]

NoProbe ==
    [fn |-> "none", base |-> 0, len |-> 0, result |-> UsizeOutcome(0, FALSE)]

\* Channels::new: every channel Disabled, every register at its reset value.
Init ==
    /\ handle = FALSE
    /\ state = [k \in ChannelIds |-> "Disabled"]
    /\ owner = [k \in ChannelIds |-> "user"]
    /\ pc = [k \in ChannelIds |-> "idle"]
    /\ src = [k \in ChannelIds |-> NoEndpoint]
    /\ dst = [k \in ChannelIds |-> NoEndpoint]
    /\ count = [k \in ChannelIds |-> 0]
    /\ outcome = [k \in ChannelIds |-> "none"]
    /\ trace = [k \in ChannelIds |-> << >>]
    /\ calls = 0
    /\ CFG = [k \in ChannelIds |-> CfgReset]
    /\ XFERCFG = [k \in ChannelIds |-> XfercfgReset]
    /\ descriptors = [i \in ChannelIds |-> DescriptorReset]
    /\ descriptor = [k \in ChannelIds |-> DescriptorSlot(k)]
    /\ enableset0 = {}
    /\ settrig0 = {}
    /\ active0 = {}
    /\ pre = [ch |-> 0, regs |-> Registers]
    /\ direction = [p \in PinIds |-> "Unknown"]
    /\ DIRSET0 = {}
    /\ PIN0 = {}
    /\ lastCall = [p \in PinIds |-> "none"]
    /\ probe = NoProbe

\* ----------------------------------------------------- peripheral, enable

\* DMA::enable: the peripheral's clock is on, and a Handle exists from now on.
DMA_enable ==
    /\ ~handle
    /\ handle' = TRUE
    /\ UNCHANGED << state, owner, pc, src, dst, count, outcome, trace, pre,
                    calls, CFG, XFERCFG, descriptors, enableset0, settrig0,
                    active0, descriptor, gpioVars, probe >>

enable_Toggles(k) ==
    /\ handle
    /\ owner[k] = "user"
    /\ state' = [state EXCEPT ![k] = IF @ = "Disabled" THEN "Enabled" ELSE "Disabled"]
    /\ UNCHANGED << handle, owner, pc, src, dst, count, outcome, trace, pre,
                    calls, CFG, XFERCFG, descriptors, enableset0, settrig0,
                    active0, descriptor, gpioVars, probe >>

enable_SetsEnableBit(k) ==
    /\ handle
    /\ owner[k] = "user"
    /\ state[k] = "Disabled"
    /\ state' = [state EXCEPT ![k] = "Enabled"]
    /\ enableset0' = enableset0 \cup BitsOf(FLAG(k))
    /\ UNCHANGED << handle, owner, pc, src, dst, count, outcome, trace, pre,
                    calls, CFG, XFERCFG, descriptors, settrig0,
                    active0, descriptor, gpioVars, probe >>

\* Channel<C, Disabled>::enable(self, dma: &Handle)
enable(k) ==
    /\ handle
    /\ owner[k] = "user"
    /\ state[k] = "Disabled"
    /\ state' = [state EXCEPT ![k] = "Enabled"]
    /\ UNCHANGED << handle, owner, pc, src, dst, count, outcome, trace, pre,
                    calls, CFG, XFERCFG, descriptors, enableset0, settrig0,
                    active0, descriptor, gpioVars, probe >>

\* ------------------------------------------------------- start_transfer

CanStart_AnyState(k) == TRUE

\* start_transfer exists only in impl Channel<C, Enabled<&Handle>>.
CanStart(k) == state[k] = "Enabled"

\* One execution context: no other call is in progress.
NoOtherCall(k) == \A j \in ChannelIds : owner[j] # "call"

Panics(k) ==
    /\ pc' = [pc EXCEPT ![k] = "idle"]
    /\ owner' = [owner EXCEPT ![k] = "lost"]
    /\ outcome' = [outcome EXCEPT ![k] = "panic"]

CallerHolds_SharedBorrow(k) == owner[k] \in {"user", "transfer"}

\* start_transfer takes self by value: the caller must hold the channel,
\* which it does not while a call runs or a Transfer owns the channel.
CallerHolds(k) == owner[k] = "user"

\* The call: self, source and dest are moved into start_transfer.
StartCall(k, s, d) ==
    /\ CallerHolds(k)
    /\ CanStart(k)
    /\ owner' = [owner EXCEPT ![k] = "call"]
    /\ pc' = [pc EXCEPT ![k] = "assert"]
    /\ src' = [src EXCEPT ![k] = s]
    /\ dst' = [dst EXCEPT ![k] = d]
    /\ count' = [count EXCEPT ![k] = 0]
    /\ outcome' = [outcome EXCEPT ![k] = "none"]
    /\ trace' = [trace EXCEPT ![k] = << >>]
    /\ pre' = [ch |-> k, regs |-> Registers]
    /\ calls' = calls + 1
    /\ UNCHANGED << handle, state, CFG, XFERCFG, descriptors, enableset0,
                    settrig0, active0, descriptor, gpioVars, probe >>

\* A call in the one execution context, within the bound on calls.
Call(k, s, d) ==
    /\ calls < MaxCalls
    /\ NoOtherCall(k)
    /\ StartCall(k, s, d)

AfterAssert_NoFence == "degenerate"

\* What follows the two asserts: the compiler fence.
AfterAssert == "fence"

\* assert!(source.is_valid()); assert!(dest.is_valid());
AssertValid(k) ==
    /\ pc[k] = "assert"
    /\ IF AssertsHold(src[k], dst[k])
       THEN /\ pc' = [pc EXCEPT ![k] = AfterAssert]
            /\ UNCHANGED << owner, outcome >>
       ELSE Panics(k)
    /\ UNCHANGED << handle, state, src, dst, count, trace, pre, calls, CFG,
                    XFERCFG, descriptors, enableset0, settrig0, active0, descriptor, gpioVars, probe >>

\* compiler_fence(Ordering::SeqCst)
Fence(k) ==
    /\ pc[k] = "fence"
    /\ trace' = [trace EXCEPT ![k] = Append(@, "fence")]
    /\ pc' = [pc EXCEPT ![k] = "degenerate"]
    /\ UNCHANGED << handle, state, owner, src, dst, count, outcome, pre, calls,
                    CFG, XFERCFG, descriptors, enableset0, settrig0, active0,
                    descriptor, gpioVars, probe >>

\* if source.is_empty() || dest.is_full() { return Transfer::new(self, ..) }
Degenerate(k) ==
    /\ pc[k] = "degenerate"
    /\ pc' = [pc EXCEPT ![k] =
                 IF IsDegenerate(src[k], dst[k]) THEN "ret" ELSE "count"]
    /\ UNCHANGED << handle, state, owner, src, dst, count, outcome, trace, pre,
                    calls, CFG, XFERCFG, descriptors, enableset0, settrig0,
                    active0, descriptor, gpioVars, probe >>

\* let transfer_count = match (source_count, dest_count) { .. }
SelectCount(k) ==
    /\ pc[k] = "count"
    /\ LET m == MatchCount(source_transfer_count(src[k]),
                           dest_transfer_count(dst[k]))
       IN IF IsSome(m)
          THEN /\ count' = [count EXCEPT ![k] = Unwrap(m)]
               /\ pc' = [pc EXCEPT ![k] = FirstStep]
               /\ UNCHANGED << owner, outcome >>
          ELSE /\ Panics(k)
               /\ UNCHANGED count
    /\ UNCHANGED << handle, state, src, dst, trace, pre, calls, CFG, XFERCFG,
                    descriptors, enableset0, settrig0, active0, descriptor, gpioVars, probe >>

\* self.cfg.write(|w| ..)
WriteCfg(k) ==
    /\ pc[k] = "cfg"
    /\ CFG' = [CFG EXCEPT ![k] = CfgValue]
    /\ trace' = [trace EXCEPT ![k] = Append(@, "cfg")]
    /\ pc' = [pc EXCEPT ![k] = AfterStep("cfg")]
    /\ UNCHANGED << handle, state, owner, src, dst, count, outcome, pre, calls,
                    XFERCFG, descriptors, enableset0, settrig0, active0, descriptor, gpioVars, probe >>

\* self.xfercfg.write(|w| ..)
WriteXfercfg(k) ==
    /\ pc[k] = "xfercfg"
    /\ XFERCFG' = [XFERCFG EXCEPT ![k] = XfercfgValue(src[k], dst[k], count[k])]
    /\ trace' = [trace EXCEPT ![k] = Append(@, "xfercfg")]
    /\ pc' = [pc EXCEPT ![k] = AfterStep("xfercfg")]
    /\ UNCHANGED << handle, state, owner, src, dst, count, outcome, pre, calls,
                    CFG, descriptors, enableset0, settrig0, active0, descriptor, gpioVars, probe >>

\* self.descriptor.source_end = source.end_addr();
WriteDescSrc(k) ==
    /\ pc[k] = "desc_src"
    /\ descriptors' = [descriptors EXCEPT
                          ![descriptor[k]].source_end = source_end_addr(src[k])]
    /\ trace' = [trace EXCEPT ![k] = Append(@, "desc_src")]
    /\ pc' = [pc EXCEPT ![k] = AfterStep("desc_src")]
    /\ UNCHANGED << handle, state, owner, src, dst, count, outcome, pre, calls,
                    CFG, XFERCFG, enableset0, settrig0, active0, descriptor, gpioVars, probe >>

\* self.descriptor.dest_end = dest.end_addr();
WriteDescDst(k) ==
    /\ pc[k] = "desc_dst"
    /\ descriptors' = [descriptors EXCEPT
                          ![descriptor[k]].dest_end = dest_end_addr(dst[k])]
    /\ trace' = [trace EXCEPT ![k] = Append(@, "desc_dst")]
    /\ pc' = [pc EXCEPT ![k] = AfterStep("desc_dst")]
    /\ UNCHANGED << handle, state, owner, src, dst, count, outcome, pre, calls,
                    CFG, XFERCFG, enableset0, settrig0, active0, descriptor, gpioVars, probe >>

\* ENABLESET0 is write-one-to-set: the ones of the value set their bits.
\* self.enableset0.write(|w| unsafe { w.ena().bits(C::FLAG) });
WriteEnable(k) ==
    /\ pc[k] = "enable"
    /\ enableset0' = enableset0 \cup BitsOf(FLAG(k))
    /\ trace' = [trace EXCEPT ![k] = Append(@, "enable")]
    /\ pc' = [pc EXCEPT ![k] = AfterStep("enable")]
    /\ UNCHANGED << handle, state, owner, src, dst, count, outcome, pre, calls,
                    CFG, XFERCFG, descriptors, settrig0, active0, descriptor, gpioVars, probe >>

\* The channels a write of value to SETTRIG0 starts: those it triggers that
\* are enabled and hold a valid transfer configuration.
HwStarted(value) ==
    {i \in BitsOf(value) \cap ChannelIds :
        i \in enableset0 /\ XFERCFG[i].cfgvalid}

\* SETTRIG0 is write-one-to-set, and a triggered channel becomes active.
\* self.settrig0.write(|w| unsafe { w.trig().bits(C::FLAG) });
WriteTrig(k) ==
    /\ pc[k] = "trig"
    /\ settrig0' = settrig0 \cup BitsOf(FLAG(k))
    /\ active0' = active0 \cup HwStarted(FLAG(k))
    /\ trace' = [trace EXCEPT ![k] = Append(@, "trig")]
    /\ pc' = [pc EXCEPT ![k] = AfterStep("trig")]
    /\ UNCHANGED << handle, state, owner, src, dst, count, outcome, pre, calls,
                    CFG, XFERCFG, descriptors, enableset0, descriptor, gpioVars, probe >>

\* Transfer::new(self, source, dest): the Transfer owns all three.
Return(k) ==
    /\ pc[k] = "ret"
    /\ pc' = [pc EXCEPT ![k] = "idle"]
    /\ owner' = [owner EXCEPT ![k] = "transfer"]
    /\ outcome' = [outcome EXCEPT ![k] = "transfer"]
    /\ UNCHANGED << handle, state, src, dst, count, trace, pre, calls, CFG,
                    XFERCFG, descriptors, enableset0, settrig0, active0, descriptor, gpioVars, probe >>

\* ------------------------------------------------- Transfer and hardware

Reclaimable_Always(k) == TRUE

\* Transfer::wait polls ACTIVE0 until the channel's bit is clear.
Reclaimable(k) == ~(BitsOf(FLAG(k)) \subseteq active0)

\* Transfer::wait returns the channel, the source and the destination.
Transfer_wait(k) ==
    /\ owner[k] = "transfer"
    /\ Reclaimable(k)
    /\ owner' = [owner EXCEPT ![k] = "user"]
    /\ src' = [src EXCEPT ![k] = NoEndpoint]
    /\ dst' = [dst EXCEPT ![k] = NoEndpoint]
    /\ count' = [count EXCEPT ![k] = 0]
    /\ outcome' = [outcome EXCEPT ![k] = "none"]
    /\ trace' = [trace EXCEPT ![k] = << >>]
    /\ UNCHANGED << handle, state, pc, pre, calls, CFG, XFERCFG, descriptors,
                    enableset0, settrig0, active0, descriptor, gpioVars, probe >>

\* The hardware finishes channel k's transfer and clears its active bit.
HwComplete(k) ==
    /\ k \in active0
    /\ active0' = active0 \ {k}
    /\ UNCHANGED << handle, state, owner, pc, src, dst, count, outcome, trace,
                    pre, calls, CFG, XFERCFG, descriptors, enableset0, settrig0,
                    descriptor, gpioVars, probe >>

Next ==
    \/ DMA_enable
    \/ \E k \in ChannelIds : enable(k)
    \/ \E k \in ChannelIds : \E s \in Sources : \E d \in Dests : Call(k, s, d)
    \/ \E k \in ChannelIds : AssertValid(k)
    \/ \E k \in ChannelIds : Fence(k)
    \/ \E k \in ChannelIds : Degenerate(k)
    \/ \E k \in ChannelIds : SelectCount(k)
    \/ \E k \in ChannelIds : WriteCfg(k)
    \/ \E k \in ChannelIds : WriteXfercfg(k)
    \/ \E k \in ChannelIds : WriteDescSrc(k)
    \/ \E k \in ChannelIds : WriteDescDst(k)
    \/ \E k \in ChannelIds : WriteEnable(k)
    \/ \E k \in ChannelIds : WriteTrig(k)
    \/ \E k \in ChannelIds : Return(k)
    \/ \E k \in ChannelIds : Transfer_wait(k)
    \/ \E k \in ChannelIds : HwComplete(k)

Spec == Init /\ [][Next]_vars

\* ------------------------------------------- one channel, used repeatedly

RepeatedSources ==
    {MemEndpoint(268435456, l) : l \in {0, 1, 10}}
        \cup {PeriphEndpoint(RxDatAddr, FALSE)}

RepeatedDests ==
    {MemEndpoint(268436480, 4)}
        \cup {PeriphEndpoint(TxDatAddr, d) : d \in BOOLEAN}

\* Channel 0 is enabled and start_transfer is called on it again each time
\* it has been taken back from the Transfer.
NextRepeated ==
    \/ DMA_enable
    \/ enable(0)
    \/ \E s \in RepeatedSources : \E d \in RepeatedDests :
          calls < MaxDeepCalls /\ StartCall(0, s, d)
    \/ AssertValid(0)
    \/ Fence(0)
    \/ Degenerate(0)
    \/ SelectCount(0)
    \/ WriteCfg(0)
    \/ WriteXfercfg(0)
    \/ WriteDescSrc(0)
    \/ WriteDescDst(0)
    \/ WriteEnable(0)
    \/ WriteTrig(0)
    \/ Return(0)
    \/ Transfer_wait(0)
    \/ HwComplete(0)

SpecRepeated == Init /\ [][NextRepeated]_vars

\* ------------------------------------- calls on several channels at once

ConcurrentCalls ==
    { << MemEndpoint(268435456, 10), PeriphEndpoint(TxDatAddr, FALSE) >>,
      << PeriphEndpoint(RxDatAddr, FALSE), MemEndpoint(268436480, 4) >> }

\* start_transfer is called once on each channel, from contexts that
\* preempt each other: the steps of the calls interleave in any order, each
\* register write being one step.
NextConcurrent ==
    \/ DMA_enable
    \/ \E k \in ChannelIds : enable(k)
    \/ \E k \in ChannelIds : \E c \in ConcurrentCalls : StartCall(k, c[1], c[2])
    \/ \E k \in ChannelIds : AssertValid(k)
    \/ \E k \in ChannelIds : Fence(k)
    \/ \E k \in ChannelIds : Degenerate(k)
    \/ \E k \in ChannelIds : SelectCount(k)
    \/ \E k \in ChannelIds : WriteCfg(k)
    \/ \E k \in ChannelIds : WriteXfercfg(k)
    \/ \E k \in ChannelIds : WriteDescSrc(k)
    \/ \E k \in ChannelIds : WriteDescDst(k)
    \/ \E k \in ChannelIds : WriteEnable(k)
    \/ \E k \in ChannelIds : WriteTrig(k)
    \/ \E k \in ChannelIds : Return(k)

SpecConcurrent == Init /\ [][NextConcurrent]_vars

\* ------------------------------------------- Clock::new_with_baudrate

\* A u32 as its two 16 bit halves (TLC's integers are too narrow for the
\* values from 2^31 on).
U32(n) == [hi |-> n \div (2 ^ 16), lo |-> n % (2 ^ 16)]

\* x * b in u32, for a factor b of at most a few hundred: the product
\* modulo 2^32, and whether it overflowed.
U32Mul(x, b) ==
    LET t == x.lo * b
        full == x.hi * b + (t \div (2 ^ 16))
    IN [value |-> [hi |-> full % (2 ^ 16), lo |-> t % (2 ^ 16)],
        overflow |-> full >= 2 ^ 16]

\* x < n, for a u32 x and a literal n below 2^31.
U32Lt(x, n) ==
    \/ x.hi < U32(n).hi
    \/ x.hi = U32(n).hi /\ x.lo < U32(n).lo

\* n / x in u32, for a literal n below 2^31 and x not 0.
U32Div(n, x) ==
    IF x.hi > U32(n).hi THEN 0 ELSE n \div (x.hi * (2 ^ 16) + x.lo)

BaudPanic(cause) ==
    [tag |-> "panic", psc |-> 0, osrval |-> 0, events |-> {cause}]

\* for i in (5..=16).rev() { if calc * (i as u32) < 12_000_000 { osrval = i; } }
\* from the iteration i on: the final osrval, and whether a product wrapped.
RECURSIVE OsrvalLoop(_, _, _, _, _)
OsrvalLoop(calc, i, osrval, wrapped, overflowChecks) ==
    IF i < 5 THEN [tag |-> "ok", osrval |-> osrval, wrapped |-> wrapped]
    ELSE LET prod == U32Mul(calc, i)
         IN IF prod.overflow /\ overflowChecks
            THEN [tag |-> "panic", osrval |-> osrval, wrapped |-> wrapped]
            ELSE OsrvalLoop(calc, i - 1,
                            IF U32Lt(prod.value, OscHz) THEN i ELSE osrval,
                            wrapped \/ prod.overflow, overflowChecks)

\* let psc = (12_000_000 / (baudrate * osrval as u32) - 1) as u16;
\* let osrval = osrval - 1; Self { psc, osrval, .. }
BaudFields(baudrate, osrval, events, overflowChecks) ==
    LET divisor == U32Mul(U32(baudrate), osrval)
        ev1 == events \cup (IF divisor.overflow THEN {"overflow"} ELSE {})
        quotient == U32Div(OscHz, divisor.value)
    IN IF divisor.overflow /\ overflowChecks THEN BaudPanic("overflow")
       ELSE IF divisor.value = U32(0) THEN BaudPanic("division by zero")
       ELSE IF quotient = 0
            THEN IF overflowChecks THEN BaudPanic("underflow")
                 ELSE [tag |-> "ok", psc |-> (2 ^ 16) - 1,
                       osrval |-> osrval - 1,
                       events |-> ev1 \cup {"underflow", "truncation"}]
            ELSE [tag |-> "ok", psc |-> (quotient - 1) % (2 ^ 16),
                  osrval |-> osrval - 1,
                  events |-> ev1 \cup (IF quotient - 1 >= 2 ^ 16
                                         THEN {"truncation"} ELSE {})]

\* Clock::<IOSC>::new_with_baudrate(baudrate)
new_with_baudrate(baudrate, overflowChecks) ==
    LET calc == U32Mul(U32(baudrate), ToleranceFactor)
    IN IF calc.overflow /\ overflowChecks THEN BaudPanic("overflow")
       ELSE LET loop == OsrvalLoop(calc.value, 16, 5, calc.overflow,
                                   overflowChecks)
            IN IF loop.tag = "panic" THEN BaudPanic("overflow")
               ELSE BaudFields(baudrate, loop.osrval,
                               IF loop.wrapped THEN {"overflow"} ELSE {},
                               overflowChecks)

\* The baudrates in common use.
UsualBaudrates ==
    {110, 300, 1200, 2400, 4800, 9600, 14400, 19200, 38400, 57600, 115200,
     230400, 250000, 460800, 500000, 921600, 1000000, 2000000}

\* The small baudrates and those at the edges of the arithmetic.
EdgeBaudrates ==
    (0 .. 40) \cup
    {2400000, 2400001, 13421772, 13421773, 214748364, 214748365, 858993460,
     (2 ^ 30) + ((2 ^ 30) - 1)}

Query_new_with_baudrate(baudrate, overflowChecks) ==
    /\ probe' = [fn |-> "new_with_baudrate", baudrate |-> baudrate,
                 checks |-> overflowChecks,
                 result |-> new_with_baudrate(baudrate, overflowChecks)]
    /\ UNCHANGED << dmaVars, gpioVars >>

NextBaudrate ==
    /\ probe.fn = "none"
    /\ \/ \E baudrate \in UsualBaudrates : \E oc \in BOOLEAN :
             Query_new_with_baudrate(baudrate, oc)
       \/ \E baudrate \in EdgeBaudrates : \E oc \in BOOLEAN :
             Query_new_with_baudrate(baudrate, oc)

SpecBaudrate == Init /\ [][NextBaudrate]_vars

\* ------------------------------------------------------------------ GPIO

\* T::MASK: the one bit of the pin in the port's registers.
MASK(p) == 2 ^ p

\* A 32 bit register value with every bit inverted, as the set of its ones.
Not32(bits) == (0 .. 31) \ bits

\* Pin<T, Gpio<D>>::into_output, for D: NotOutput:
\* self.state.dirset0.write(|w| unsafe { w.dirsetp().bits(T::MASK) });
into_output(p) ==
    /\ direction[p] # "Output"
    /\ DIRSET0' = DIRSET0 \cup BitsOf(MASK(p))
    /\ direction' = [direction EXCEPT ![p] = "Output"]
    /\ UNCHANGED << PIN0, lastCall, dmaVars, probe >>

\* set_high: self.state.set0.write(|w| unsafe { w.setp().bits(T::MASK) })
\* SET0 is write-one-to-set on the port's output bits.
set_high(p) ==
    /\ direction[p] = "Output"
    /\ PIN0' = PIN0 \cup BitsOf(MASK(p))
    /\ lastCall' = [lastCall EXCEPT ![p] = "high"]
    /\ UNCHANGED << direction, DIRSET0, dmaVars, probe >>

set_low_WritesPort(p) ==
    /\ direction[p] = "Output"
    /\ PIN0' = PIN0 \cap Not32(BitsOf(MASK(p)) \cup {p + 1})
    /\ lastCall' = [lastCall EXCEPT ![p] = "low"]
    /\ UNCHANGED << direction, DIRSET0, dmaVars, probe >>

\* set_low: self.state.clr0.write(|w| unsafe { w.clrp().bits(T::MASK) });
\* CLR0 is write-one-to-clear on the port's output bits.
set_low(p) ==
    /\ direction[p] = "Output"
    /\ PIN0' = PIN0 \ BitsOf(MASK(p))
    /\ lastCall' = [lastCall EXCEPT ![p] = "low"]
    /\ UNCHANGED << direction, DIRSET0, dmaVars, probe >>

\* self.state.pin0.read().port().bits() & T::MASK == T::MASK
is_set_high(p) == (PIN0 \cap BitsOf(MASK(p))) = BitsOf(MASK(p))

\* !self.state.pin0.read().port().bits() & T::MASK == T::MASK
\* (the ! applies to the register value, the == to the masked value)
is_set_low(p) == (Not32(PIN0) \cap BitsOf(MASK(p))) = BitsOf(MASK(p))

NextGpio ==
    \/ \E p \in PinIds : into_output(p)
    \/ \E p \in PinIds : set_high(p)
    \/ \E p \in PinIds : set_low(p)

SpecGpio == Init /\ [][NextGpio]_vars

\* ----------------------------------------------- queries to Channels::new

\* Channels::new on a table of tableLen entries, for n channels.
Query_new(tableLen, n) ==
    /\ probe' = [fn |-> "new", tableLen |-> tableLen, channels |-> n,
                 result |-> Channels_new(tableLen, n)]
    /\ UNCHANGED << dmaVars, gpioVars >>

NextNew ==
    \E tableLen \in 0 .. MaxTableLen :
        \E n \in {NumChannels, Channels82x, Channels845} : Query_new(tableLen, n)

SpecNew == Init /\ [][NextNew]_vars

\* ------------------------------------------------- USART and I2C clocks

\* What a u8 computation yields in the build: its value; out of 0..255, a
\* panic with overflow checks on and the value modulo 2^8 with them off.
U8Outcome(x, overflowChecks) ==
    IF x >= 0 /\ x < 2 ^ 8 THEN [tag |-> "ok", value |-> x]
    ELSE IF overflowChecks THEN [tag |-> "panic", value |-> 0]
    ELSE [tag |-> "wrapped", value |-> x % (2 ^ 8)]

ClockPanic == [tag |-> "panic", psc |-> 0, osrval |-> 0]

Clock_new_Accepts17(psc, osrval, overflowChecks) ==
    LET sub == U8Outcome(osrval - 1, overflowChecks)
    IN IF sub.tag = "panic" THEN ClockPanic
       ELSE IF sub.value > 3 /\ sub.value <= 16
            THEN [tag |-> "ok", psc |-> psc, osrval |-> sub.value]
            ELSE ClockPanic

\* usart::Clock::new: let osrval = osrval - 1;
\* assert!(osrval > 3 && osrval < 0x10); Self { psc, osrval, .. }
Clock_new(psc, osrval, overflowChecks) ==
    LET sub == U8Outcome(osrval - 1, overflowChecks)
    IN IF sub.tag = "panic" THEN ClockPanic
       ELSE IF sub.value > 3 /\ sub.value < 16
            THEN [tag |-> "ok", psc |-> psc, osrval |-> sub.value]
            ELSE ClockPanic

\* syscon::UsartClock::new (82x): the same statements.
UsartClock_new(psc, osrval, overflowChecks) ==
    LET sub == U8Outcome(osrval - 1, overflowChecks)
    IN IF sub.tag = "panic" THEN ClockPanic
       ELSE IF sub.value > 3 /\ sub.value < 16
            THEN [tag |-> "ok", psc |-> psc, osrval |-> sub.value]
            ELSE ClockPanic

I2cPanic == [tag |-> "panic", divval |-> 0, mstsclhigh |-> 0, mstscllow |-> 0]

\* The struct literal of I2cClock::new, once the asserts have passed.
I2cFields(divval, mstsclhigh, mstscllow, overflowChecks) ==
    LET high == U8Outcome(mstsclhigh - 2, overflowChecks)
        low == U8Outcome(mstscllow - 2, overflowChecks)
    IN IF high.tag = "panic" \/ low.tag = "panic" THEN I2cPanic
       ELSE [tag |-> "ok", divval |-> divval,
             mstsclhigh |-> high.value, mstscllow |-> low.value]

I2cClock_new_HighCheckedTwice(divval, mstsclhigh, mstscllow, overflowChecks) ==
    IF ~(mstsclhigh > 1 /\ mstsclhigh < 10) THEN I2cPanic
    ELSE IF ~(mstsclhigh > 1 /\ mstsclhigh < 10) THEN I2cPanic
    ELSE I2cFields(divval, mstsclhigh, mstscllow, overflowChecks)

\* I2cClock::new: assert!(mstsclhigh > 1 && mstsclhigh < 10);
\* assert!(mstscllow > 1 && mstscllow < 10);
\* Self { divval, mstsclhigh: mstsclhigh - 2, mstscllow: mstscllow - 2, .. }
I2cClock_new(divval, mstsclhigh, mstscllow, overflowChecks) ==
    IF ~(mstsclhigh > 1 /\ mstsclhigh < 10) THEN I2cPanic
    ELSE IF ~(mstscllow > 1 /\ mstscllow < 10) THEN I2cPanic
    ELSE I2cFields(divval, mstsclhigh, mstscllow, overflowChecks)

\* Every u8, and the ends of u16.
U8 == 0 .. (2 ^ 8 - 1)

U16Samples == {0, 5, 2 ^ 16 - 1}

Query_Clock_new(psc, osrval, overflowChecks) ==
    /\ probe' = [fn |-> "Clock::new", psc |-> psc, osrval |-> osrval,
                 checks |-> overflowChecks,
                 result |-> Clock_new(psc, osrval, overflowChecks)]
    /\ UNCHANGED << dmaVars, gpioVars >>

Query_UsartClock_new(psc, osrval, overflowChecks) ==
    /\ probe' = [fn |-> "UsartClock::new", psc |-> psc, osrval |-> osrval,
                 checks |-> overflowChecks,
                 result |-> UsartClock_new(psc, osrval, overflowChecks)]
    /\ UNCHANGED << dmaVars, gpioVars >>

Query_I2cClock_new(divval, mstsclhigh, mstscllow, overflowChecks) ==
    /\ probe' = [fn |-> "I2cClock::new", divval |-> divval,
                 mstsclhigh |-> mstsclhigh, mstscllow |-> mstscllow,
                 checks |-> overflowChecks,
                 result |-> I2cClock_new(divval, mstsclhigh, mstscllow,
                                         overflowChecks)]
    /\ UNCHANGED << dmaVars, gpioVars >>

\* One constructor call, on any input.
NextClock ==
    /\ probe.fn = "none"
    /\ \/ \E psc \in U16Samples : \E osrval \in U8 : \E oc \in BOOLEAN :
             Query_Clock_new(psc, osrval, oc)
       \/ \E psc \in U16Samples : \E osrval \in U8 : \E oc \in BOOLEAN :
             Query_UsartClock_new(psc, osrval, oc)
       \/ \E divval \in {0, 2 ^ 16 - 1} : \E high \in U8 : \E low \in U8 :
             \E oc \in BOOLEAN : Query_I2cClock_new(divval, high, low, oc)

SpecClock == Init /\ [][NextClock]_vars

\* --------------------------------------------- queries to a static buffer

\* The lengths of the buffers queried: the short ones and those around the limit.
ProbeLens == (0 .. MaxProbeLen) \cup {MaxUnits, MaxUnits + 1}

\* <&'static [u8] as Source>::is_empty
Query_is_empty(base, len) ==
    /\ probe' = [fn |-> "is_empty", base |-> base, len |-> len,
                 result |-> [tag |-> "ok", value |-> buffer_is_empty(len)]]
    /\ UNCHANGED << dmaVars, gpioVars >>

\* <&'static [u8] as Source>::transfer_count, in either build
Query_transfer_count(base, len, overflowChecks) ==
    /\ probe' = [fn |-> "transfer_count", base |-> base, len |-> len,
                 result |-> UsizeOutcome(buffer_transfer_count(len), overflowChecks)]
    /\ UNCHANGED << dmaVars, gpioVars >>

\* <&'static [u8] as Source>::end_addr, in either build: it aborts where
\* transfer_count does, and otherwise offsets the base by the count.
Query_end_addr(base, len, overflowChecks) ==
    /\ probe' = [fn |-> "end_addr", base |-> base, len |-> len,
                 result |->
                     [UsizeOutcome(buffer_transfer_count(len), overflowChecks)
                         EXCEPT !.value =
                             IF UsizeOutcome(buffer_transfer_count(len),
                                             overflowChecks).tag = "panic"
                             THEN 0 ELSE buffer_end_addr(base, len)]]
    /\ UNCHANGED << dmaVars, gpioVars >>

NextBuffer ==
    \/ \E base \in BufBases : \E len \in ProbeLens : Query_is_empty(base, len)
    \/ \E base \in BufBases : \E len \in ProbeLens : \E oc \in BOOLEAN :
          Query_transfer_count(base, len, oc)
    \/ \E base \in BufBases : \E len \in ProbeLens : \E oc \in BOOLEAN :
          Query_end_addr(base, len, oc)

SpecBuffer == Init /\ [][NextBuffer]_vars

\* ================================================================ claims

IsPrefix(s, t) == Len(s) <= Len(t) /\ SubSeq(t, 1, Len(s)) = s

Events(k) == {trace[k][i] : i \in 1 .. Len(trace[k])}

\* The hardware writes of channel k's current or last call, in order.
Writes(k) ==
    LET IsWrite(e) == e # "fence" IN SelectSeq(trace[k], IsWrite)

ProgramOrder == << "cfg", "xfercfg", "desc_src", "desc_dst", "enable", "trig" >>

\* Channel k is in a call, or holds the record of its last one.
HasCall(k) == src[k].kind # "none"

CallValid(k) == source_is_valid(src[k]) /\ dest_is_valid(dst[k])

CallDegenerate(k) == source_is_empty(src[k]) \/ dest_is_full(dst[k])

SourceCounts(k) == IsSome(source_transfer_count(src[k]))

DestCounts(k) == IsSome(dest_transfer_count(dst[k]))

ExactlyOneCounts(k) == SourceCounts(k) # DestCounts(k)

ReportedCount(k) ==
    IF SourceCounts(k) THEN Unwrap(source_transfer_count(src[k]))
    ELSE Unwrap(dest_transfer_count(dst[k]))

\* The call of channel k is over (it returned a Transfer or panicked).
CallOver(k) == HasCall(k) /\ pc[k] = "idle"

\* No register differs from what it was when channel k's call began.
NothingWrittenBy(k) ==
    /\ Writes(k) = << >>
    /\ pre.ch = k => Registers = pre.regs

\* C1: in every call the hardware writes made so far are an initial part of
\* CFG, XFERCFG, descriptor (source_end, dest_end), enable bit, trigger bit,
\* and a non-degenerate call that returned has made all of them, in that
\* order: the trigger is never set before the configuration and the
\* descriptor are written, nor the enable bit after the trigger.
C1_WriteOrder ==
    \A k \in ChannelIds :
        /\ IsPrefix(Writes(k), ProgramOrder)
        /\ (outcome[k] = "transfer" /\ ~CallDegenerate(k))
              => Writes(k) = ProgramOrder
        /\ "trig" \in Events(k) =>
              /\ CFG[k] = CfgValue
              /\ XFERCFG[k].cfgvalid
              /\ descriptors[k] = [source_end |-> source_end_addr(src[k]),
                                   dest_end |-> dest_end_addr(dst[k])]
              /\ k \in enableset0

C1_Witness ==
    \E k \in ChannelIds :
        /\ outcome[k] = "transfer"
        /\ ~CallDegenerate(k)
        /\ Writes(k) = ProgramOrder
        /\ k \in settrig0

\* C2: a channel's trigger bit is set by a call, and the hardware is active
\* for the channel, only when both endpoints of that call are valid, the
\* source is not empty, the destination is not full, exactly one endpoint
\* reports a transfer count and XFERCFG's count field holds that count.
C2_TriggerOnlyRepresentable ==
    \A k \in ChannelIds :
        /\ k \in active0 => "trig" \in Events(k)
        /\ "trig" \in Events(k) =>
              /\ CallValid(k)
              /\ ~source_is_empty(src[k])
              /\ ~dest_is_full(dst[k])
              /\ ExactlyOneCounts(k)
              /\ XFERCFG[k].xfercount = ReportedCount(k)

C2_Witness ==
    \E k \in ChannelIds :
        /\ "trig" \in Events(k)
        /\ k \in active0
        /\ src[k].kind = "mem"
        /\ src[k].len = MaxUnits
        /\ XFERCFG[k].xfercount = MaxUnits - 1

\* C3: a call with valid endpoints, a source that is not empty and a
\* destination that is not full, in which both endpoints or neither report
\* a transfer count, writes no register and never returns a Transfer: it
\* ends in the panic; a call that wrote a register had exactly one count.
C3_UnsupportedShapePanics ==
    \A k \in ChannelIds :
        /\ (HasCall(k) /\ CallValid(k) /\ ~CallDegenerate(k)
                /\ ~ExactlyOneCounts(k))
              => /\ NothingWrittenBy(k)
                 /\ outcome[k] # "transfer"
                 /\ CallOver(k) => outcome[k] = "panic"
        /\ Writes(k) # << >> => ExactlyOneCounts(k)

C3_Witness ==
    /\ \E k \in ChannelIds :
          /\ outcome[k] = "panic"
          /\ CallValid(k) /\ ~CallDegenerate(k)
          /\ SourceCounts(k) /\ DestCounts(k)
    /\ \E k \in ChannelIds :
          /\ outcome[k] = "panic"
          /\ CallValid(k) /\ ~CallDegenerate(k)
          /\ ~SourceCounts(k) /\ ~DestCounts(k)

\* C4: a call whose source or destination is not valid (a buffer longer
\* than 1024, such as 1025) panics at the assertions: it does not get past
\* them, returns no Transfer and leaves CFG, XFERCFG, the descriptors, the
\* enable register and the trigger register as they were.
C4_InvalidAbortsBeforeWrites ==
    \A k \in ChannelIds :
        (HasCall(k) /\ ~CallValid(k))
            => /\ NothingWrittenBy(k)
               /\ trace[k] = << >>
               /\ pc[k] \in {"assert", "idle"}
               /\ CallOver(k) => outcome[k] = "panic"

C4_Witness ==
    \E k \in ChannelIds :
        /\ outcome[k] = "panic"
        /\ src[k].kind = "mem"
        /\ src[k].len = MaxUnits + 1
        /\ pre.ch = k
        /\ Registers = pre.regs

\* C5: a call with valid endpoints whose source is empty or whose
\* destination is full never panics and writes no register, and when it is
\* over it has returned a Transfer.
C5_DegenerateReturnsUntouched ==
    \A k \in ChannelIds :
        (HasCall(k) /\ CallValid(k) /\ CallDegenerate(k))
            => /\ NothingWrittenBy(k)
               /\ outcome[k] # "panic"
               /\ CallOver(k) => (outcome[k] = "transfer" /\ owner[k] = "transfer")

C5_Witness ==
    /\ \E k \in ChannelIds :
          /\ owner[k] = "transfer"
          /\ src[k].kind = "mem" /\ src[k].len = 0
          /\ dest_is_valid(dst[k])
          /\ Writes(k) = << >>
    /\ \E k \in ChannelIds :
          /\ owner[k] = "transfer"
          /\ source_is_valid(src[k]) /\ ~source_is_empty(src[k])
          /\ dest_is_full(dst[k])
          /\ Writes(k) = << >>

\* C6: after start_transfer on channel k returned for a buffer source of
\* length L in 1..1024 at base and a peripheral destination that is not
\* full, k's descriptor holds source_end = base + (L - 1), XFERCFG's count is
\* L - 1, k's enable and trigger bits are set, and the enable and trigger
\* bits of the other channels are as they were before the call.
C6_BufferToPeripheral ==
    \A k \in ChannelIds :
        (/\ outcome[k] = "transfer"
         /\ src[k].kind = "mem" /\ src[k].len >= 1 /\ src[k].len <= MaxUnits
         /\ dst[k].kind = "periph" /\ ~dst[k].done)
            => /\ descriptors[k].source_end = src[k].base + (src[k].len - 1)
               /\ descriptors[k].dest_end = dst[k].base
               /\ XFERCFG[k].xfercount = src[k].len - 1
               /\ k \in enableset0
               /\ k \in settrig0
               /\ pre.ch = k =>
                     /\ enableset0 \ {k} = pre.regs.ena \ {k}
                     /\ settrig0 \ {k} = pre.regs.trig \ {k}

C6_Witness ==
    \E k \in ChannelIds :
        /\ outcome[k] = "transfer"
        /\ src[k].kind = "mem" /\ src[k].len = 10
        /\ dst[k].kind = "periph" /\ ~dst[k].done
        /\ descriptors[k].source_end = src[k].base + 9
        /\ XFERCFG[k].xfercount = 9
        /\ pre.ch = k
        /\ pre.regs.ena \ {k} # {}

\* C7: the operations on the channel of the latest call (and the enable,
\* wait and hardware steps around it) leave the CFG register, the XFERCFG
\* register and the descriptor slot of every other channel as they were
\* when that call began.
C7_OtherChannelsUntouched ==
    \A k \in ChannelIds :
        k # pre.ch =>
            /\ CFG[k] = pre.regs.cfg[k]
            /\ XFERCFG[k] = pre.regs.xfercfg[k]
            /\ descriptors[k] = pre.regs.desc[k]

C7_Witness ==
    \E k \in ChannelIds : \E j \in ChannelIds :
        /\ k # j
        /\ pre.ch = k
        /\ outcome[k] = "transfer" /\ Writes(k) = ProgramOrder
        /\ outcome[j] = "transfer" /\ Writes(j) = ProgramOrder
        /\ XFERCFG[j] # XFERCFG[k]
        /\ descriptors[j] # descriptors[k]
        /\ XFERCFG[j] = pre.regs.xfercfg[j]
        /\ descriptors[j] = pre.regs.desc[j]

\* C8: a channel that is in a call, in a Transfer or lost to a panic is
\* Enabled, an Enabled channel exists only with a Handle, and a channel that
\* is still Disabled has never been programmed: its CFG, XFERCFG and
\* descriptor hold their reset values and its enable, trigger and active
\* bits are clear.
C8_NoStartWhileDisabled ==
    \A k \in ChannelIds :
        /\ (HasCall(k) \/ owner[k] # "user" \/ pc[k] # "idle")
              => state[k] = "Enabled"
        /\ state[k] = "Enabled" => handle
        /\ state[k] = "Disabled" =>
              /\ CFG[k] = CfgReset
              /\ XFERCFG[k] = XfercfgReset
              /\ descriptors[k] = DescriptorReset
              /\ k \notin (enableset0 \cup settrig0 \cup active0)

C8_Witness ==
    \E k \in ChannelIds : \E j \in ChannelIds :
        /\ state[k] = "Enabled" /\ handle
        /\ Writes(k) = ProgramOrder
        /\ state[j] = "Disabled"
        /\ CFG[j] = CfgReset

\* C9: whenever the caller holds a channel (before a call, or after taking
\* it back from a Transfer together with the endpoints), the hardware does
\* not report the channel as active.
C9_NoReclaimWhileActive ==
    \A k \in ChannelIds : owner[k] = "user" => k \notin active0

C9_Witness ==
    \E k \in ChannelIds :
        /\ owner[k] = "user"
        /\ k \in settrig0
        /\ k \notin active0
        /\ src[k] = NoEndpoint

\* C10: for a static buffer of length L >= 1 at base, transfer_count() is
\* L - 1 and end_addr() is base + (L - 1), in either build; is_empty() is
\* (L = 0): false for L >= 1 and true for L = 0.
C10_StaticBuffer ==
    /\ (probe.fn = "transfer_count" /\ probe.len >= 1)
          => probe.result = [tag |-> "ok", value |-> probe.len - 1]
    /\ (probe.fn = "end_addr" /\ probe.len >= 1)
          => probe.result = [tag |-> "ok", value |-> probe.base + (probe.len - 1)]
    /\ probe.fn = "is_empty"
          => /\ probe.result.tag = "ok"
             /\ probe.result.value = (probe.len = 0)
             /\ probe.len >= 1 => probe.result.value = FALSE

C10_Witness ==
    /\ probe.fn = "end_addr"
    /\ probe.len = 10
    /\ probe.result = [tag |-> "ok", value |-> probe.base + 9]

\* C11: every channel starts Disabled, and the typestate of a channel
\* changes only from Disabled to Enabled, in a step taken with a Handle
\* while the caller holds the idle channel: no step of enable,
\* start_transfer, the hardware or the reclaiming of the channel takes an
\* Enabled channel back to Disabled.
C11_EnabledForever ==
    /\ \A k \in ChannelIds : state[k] = "Disabled"
    /\ [][\A k \in ChannelIds :
            state'[k] # state[k] =>
                /\ state[k] = "Disabled"
                /\ state'[k] = "Enabled"
                /\ handle
                /\ owner[k] = "user"
                /\ pc[k] = "idle"]_vars

C11_Witness ==
    \E k \in ChannelIds :
        /\ state[k] = "Enabled"
        /\ owner[k] = "user"
        /\ k \in settrig0
        /\ calls = MaxCalls

\* C12: channel i holds the descriptor table's entry i, no two channels
\* hold the same entry, every entry held is one of the table, and this is
\* so in every state: enable and start_transfer keep the entry.
C12_DescriptorOwnership ==
    \A k \in ChannelIds :
        /\ descriptor[k] = INDEX(k)
        /\ descriptor[k] \in DOMAIN descriptors
        /\ \A j \in ChannelIds : j # k => descriptor[j] # descriptor[k]

C12_Witness ==
    \E k \in ChannelIds :
        /\ k > 0
        /\ state[k] = "Enabled"
        /\ "desc_dst" \in Events(k)
        /\ descriptor[k] = k
        /\ descriptors[k] # DescriptorReset
        /\ descriptors[0] = DescriptorReset

\* C14: the step that turns a channel from Disabled to Enabled changes no
\* register and no descriptor (CFG, XFERCFG, the descriptor table, the
\* enable, trigger and active registers), and the channel keeps its
\* descriptor slot, its owner and its position.
C14_EnableWritesNothing ==
    [][\A k \in ChannelIds :
          (state[k] = "Disabled" /\ state'[k] = "Enabled") =>
              /\ CFG' = CFG
              /\ XFERCFG' = XFERCFG
              /\ descriptors' = descriptors
              /\ enableset0' = enableset0
              /\ settrig0' = settrig0
              /\ active0' = active0
              /\ descriptor' = descriptor
              /\ owner' = owner
              /\ pc' = pc]_vars

C14_Witness ==
    \E k \in ChannelIds : \E j \in ChannelIds :
        /\ state[k] = "Enabled"
        /\ ~HasCall(k)
        /\ owner[k] = "user"
        /\ CFG[k] = CfgReset
        /\ k \notin enableset0
        /\ j \in active0

\* C17: during a call XFERCFG holds the value it had when the call began
\* until the one XFERCFG write, and from that write on it holds every field
\* of this call together: valid, no reload, no software trigger, the
\* clear-trigger field set (CLEARED), no interrupt set, 8 bit width, the
\* source's and the destination's increments and the call's transfer
\* count.  The register never holds a mix of the two.
C17_XfercfgSingleWrite ==
    \A k \in ChannelIds :
        /\ Len(SelectSeq(trace[k], LAMBDA e : e = "xfercfg")) <= 1
        /\ "xfercfg" \in Events(k) =>
              XFERCFG[k] =
                  [cfgvalid |-> TRUE, reload |-> FALSE, swtrig |-> FALSE,
                   clrtrig |-> TRUE, setinta |-> FALSE, setintb |-> FALSE,
                   width |-> "BIT_8",
                   srcinc |-> source_increment(src[k]),
                   dstinc |-> dest_increment(dst[k]),
                   xfercount |-> ReportedCount(k)]
        /\ (pre.ch = k /\ HasCall(k) /\ "xfercfg" \notin Events(k))
              => XFERCFG[k] = pre.regs.xfercfg[k]

C17_Witness ==
    \E k \in ChannelIds :
        /\ pc[k] = AfterStep("xfercfg")
        /\ pre.ch = k
        /\ pre.regs.xfercfg[k].cfgvalid
        /\ pre.regs.xfercfg[k].xfercount # XFERCFG[k].xfercount
        /\ pre.regs.xfercfg[k].srcinc # XFERCFG[k].srcinc
        /\ XFERCFG[k].srcinc = source_increment(src[k])
        /\ XFERCFG[k].xfercount = ReportedCount(k)

\* C19: in every call the fence comes first: it is the first effect of the
\* call, it happens once, it happens only after both endpoints passed the
\* validity asserts, and every write of CFG, XFERCFG, the descriptor, the
\* enable bit and the trigger bit comes after it.
C19_FenceBeforeWrites ==
    \A k \in ChannelIds :
        /\ trace[k] # << >> => trace[k][1] = "fence"
        /\ Len(SelectSeq(trace[k], LAMBDA e : e = "fence")) <= 1
        /\ "fence" \in Events(k) => CallValid(k)
        /\ pc[k] \in {"degenerate", "count", "ret"}
                       \cup {ProgramOrder[i] : i \in 1 .. Len(ProgramOrder)}
              => "fence" \in Events(k)
        /\ Writes(k) # << >> => "fence" \in Events(k)

C19_Witness ==
    \E k \in ChannelIds :
        /\ trace[k] = << "fence" >> \o ProgramOrder
        /\ k \in settrig0

\* C13: Channels::new panics when the table has fewer entries than there
\* are channels; with at least as many entries it succeeds and every
\* channel holds an entry of the table, no two the same.  It never yields a
\* channel without a descriptor.
C13_NewPanicsOnShortTable ==
    probe.fn = "new" =>
        /\ probe.tableLen < probe.channels => probe.result.tag = "panic"
        /\ probe.tableLen >= probe.channels => probe.result.tag = "ok"
        /\ probe.result.tag = "ok" =>
              /\ DOMAIN probe.result.slots = 0 .. (probe.channels - 1)
              /\ \A c \in 0 .. (probe.channels - 1) :
                    /\ probe.result.slots[c] \in 0 .. (probe.tableLen - 1)
                    /\ \A e \in 0 .. (probe.channels - 1) :
                          e # c => probe.result.slots[e] # probe.result.slots[c]

C13_Witness ==
    /\ probe.fn = "new"
    /\ probe.channels = Channels82x
    /\ probe.tableLen = Channels82x - 1
    /\ probe.result.tag = "panic"

\* C18: whenever a call has set the trigger bit, or the hardware is active
\* for the channel, the channel's descriptor holds source.end_addr() and
\* dest.end_addr() of that same call, whatever earlier calls on the channel
\* (transfers, or degenerate calls that skipped the descriptor) left there.
C18_DescriptorOfThisCall ==
    \A k \in ChannelIds :
        ("trig" \in Events(k) \/ k \in active0) =>
            /\ descriptors[k].source_end = source_end_addr(src[k])
            /\ descriptors[k].dest_end = dest_end_addr(dst[k])

C18_Witness ==
    /\ calls = MaxDeepCalls
    /\ "trig" \in Events(0)
    /\ pre.ch = 0
    /\ pre.regs.desc[0] # DescriptorReset
    /\ pre.regs.desc[0].source_end # descriptors[0].source_end
    /\ pre.regs.desc[0].dest_end # descriptors[0].dest_end
    /\ pre.regs.xfercfg[0].xfercount # XFERCFG[0].xfercount

\* C15: the USART clock constructors (usart::Clock::new and the 82x
\* syscon::UsartClock::new) return a configuration exactly for osrval in
\* 5..16, and it stores osrval - 1 (in 4..15) and the given psc; for every
\* other u8 value of osrval, 0 included, they panic, in either build.
C15_UsartClockRange ==
    probe.fn \in {"Clock::new", "UsartClock::new"} =>
        /\ probe.osrval \in 5 .. 16 =>
              probe.result = [tag |-> "ok", psc |-> probe.psc,
                              osrval |-> probe.osrval - 1]
        /\ probe.osrval \notin 5 .. 16 => probe.result.tag = "panic"
        /\ probe.result.tag = "ok" => probe.result.osrval \in 4 .. 15

C15_Witness ==
    /\ probe.fn = "Clock::new"
    /\ probe.osrval = 16
    /\ probe.psc = 2 ^ 16 - 1
    /\ probe.result = [tag |-> "ok", psc |-> 2 ^ 16 - 1, osrval |-> 15]

\* C16: I2cClock::new returns a configuration exactly when mstsclhigh and
\* mstscllow are both in 2..9, and it stores mstsclhigh - 2 and
\* mstscllow - 2 (each in 0..7) and the given divval; for every other
\* input it panics, in either build, and no stored value has underflowed.
C16_I2cClockRange ==
    probe.fn = "I2cClock::new" =>
        /\ (probe.mstsclhigh \in 2 .. 9 /\ probe.mstscllow \in 2 .. 9) =>
              probe.result = [tag |-> "ok", divval |-> probe.divval,
                              mstsclhigh |-> probe.mstsclhigh - 2,
                              mstscllow |-> probe.mstscllow - 2]
        /\ ~(probe.mstsclhigh \in 2 .. 9 /\ probe.mstscllow \in 2 .. 9) =>
              probe.result.tag = "panic"
        /\ probe.result.tag = "ok" =>
              /\ probe.result.mstsclhigh \in 0 .. 7
              /\ probe.result.mstscllow \in 0 .. 7

C16_Witness ==
    /\ probe.fn = "I2cClock::new"
    /\ probe.mstsclhigh = 9
    /\ probe.mstscllow = 2
    /\ probe.result = [tag |-> "ok", divval |-> probe.divval,
                       mstsclhigh |-> 7, mstscllow |-> 0]

\* C20: with the calls on different channels interleaved write by write,
\* no update is lost and no call touches another channel's bit: at every
\* moment the enable register holds exactly the bits of the channels whose
\* call has written it, the trigger register likewise, and each channel's
\* CFG, XFERCFG and descriptor hold the values of its own call once that
\* call has written them (and the reset values before).
C20_InterleavedCallsKeepBits ==
    /\ enableset0 = {k \in ChannelIds : "enable" \in Events(k)}
    /\ settrig0 = {k \in ChannelIds : "trig" \in Events(k)}
    /\ \A k \in ChannelIds :
          /\ CFG[k] = IF "cfg" \in Events(k) THEN CfgValue ELSE CfgReset
          /\ XFERCFG[k] =
                IF "xfercfg" \in Events(k)
                THEN [cfgvalid |-> TRUE, reload |-> FALSE, swtrig |-> FALSE,
                      clrtrig |-> TRUE, setinta |-> FALSE, setintb |-> FALSE,
                      width |-> "BIT_8",
                      srcinc |-> source_increment(src[k]),
                      dstinc |-> dest_increment(dst[k]),
                      xfercount |-> ReportedCount(k)]
                ELSE XfercfgReset
          /\ descriptors[k].source_end =
                IF "desc_src" \in Events(k) THEN source_end_addr(src[k]) ELSE 0
          /\ descriptors[k].dest_end =
                IF "desc_dst" \in Events(k) THEN dest_end_addr(dst[k]) ELSE 0
          /\ outcome[k] = "transfer" =>
                (k \in enableset0 /\ k \in settrig0)

C20_Witness ==
    \E k \in ChannelIds : \E j \in ChannelIds :
        /\ k # j
        /\ owner[k] = "call" /\ pc[k] = "ret"
        /\ owner[j] = "call" /\ pc[j] = "ret"
        /\ Writes(k) = ProgramOrder
        /\ Writes(j) = ProgramOrder
        /\ {k, j} \subseteq enableset0
        /\ {k, j} \subseteq settrig0
        /\ XFERCFG[k] # XFERCFG[j]
        /\ descriptors[k] # descriptors[j]

\* C21: the degenerate check comes before the counts: a call reaches the
\* computation of the transfer counts only with a source that is not empty
\* and a destination that is not full, so every "length - 1" evaluated
\* there is a usize in either build; and a degenerate call with valid
\* endpoints never reaches the match, so it ends in a Transfer and not in
\* the "unsupported" panic even when both or neither endpoint reports a
\* count.
C21_DegenerateBeforeCount ==
    \A k \in ChannelIds :
        /\ pc[k] = "count" =>
              /\ ~source_is_empty(src[k])
              /\ ~dest_is_full(dst[k])
              /\ \A c \in {source_transfer_count(src[k]),
                           dest_transfer_count(dst[k])} :
                    IsSome(c) =>
                        \A oc \in BOOLEAN :
                            UsizeOutcome(Unwrap(c), oc).tag = "ok"
        /\ count[k] >= 0
        /\ (HasCall(k) /\ source_is_empty(src[k])) =>
              pc[k] \notin {"count"} \cup Events(k) \cup
                           {StepOrder[i] : i \in 1 .. Len(StepOrder)}
        /\ (CallOver(k) /\ CallValid(k) /\ CallDegenerate(k)
                /\ ~ExactlyOneCounts(k)) => outcome[k] = "transfer"
        /\ (outcome[k] = "panic" /\ CallValid(k)) =>
              (~CallDegenerate(k) /\ ~ExactlyOneCounts(k))

C21_Witness ==
    /\ \E k \in ChannelIds :
          /\ outcome[k] = "transfer"
          /\ src[k].kind = "mem" /\ src[k].len = 0
          /\ dst[k].kind = "mem" /\ dst[k].len > 0
          /\ SourceCounts(k) /\ DestCounts(k)
          /\ trace[k] = << "fence" >>
    /\ \E k \in ChannelIds :
          /\ outcome[k] = "transfer"
          /\ source_is_empty(src[k])
          /\ ~SourceCounts(k) /\ ~DestCounts(k)
          /\ trace[k] = << "fence" >>

\* C22: a channel has at most one outstanding Transfer.  A call begins only
\* on a channel the caller holds; while a Transfer owns the channel no call
\* begins on it, its CFG, XFERCFG, descriptor, enable bit and trigger bit
\* are not written, and the Transfer keeps the source and the destination
\* of its call; the only way out is the reclaiming of the channel.  Every
\* write to a channel's registers is made by the one call that owns it.
C22_OneOutstandingTransfer ==
    [][\A k \in ChannelIds :
          /\ (owner'[k] = "call" /\ owner[k] # "call") => owner[k] = "user"
          /\ owner[k] = "transfer" =>
                /\ owner'[k] \in {"transfer", "user"}
                /\ pc'[k] = "idle"
                /\ CFG'[k] = CFG[k]
                /\ XFERCFG'[k] = XFERCFG[k]
                /\ descriptors'[descriptor[k]] = descriptors[descriptor[k]]
                /\ (k \in enableset0') = (k \in enableset0)
                /\ (k \in settrig0') = (k \in settrig0)
                /\ owner'[k] = "transfer" => (src'[k] = src[k] /\ dst'[k] = dst[k])
          /\ (\/ CFG'[k] # CFG[k]
              \/ XFERCFG'[k] # XFERCFG[k]
              \/ descriptors'[descriptor[k]] # descriptors[descriptor[k]]
              \/ (k \in settrig0') # (k \in settrig0)
              \/ (k \in enableset0') # (k \in enableset0)) => owner[k] = "call"
          /\ trace'[k] # trace[k] =>
                \/ owner[k] = "call"
                \/ (owner[k] = "user" /\ owner'[k] = "call")
                \/ (owner[k] = "transfer" /\ owner'[k] = "user")]_vars

C22_Witness ==
    /\ calls >= 2
    /\ owner[0] = "transfer"
    /\ Writes(0) = ProgramOrder
    /\ pre.ch = 0
    /\ pre.regs.xfercfg[0].cfgvalid
    /\ pre.regs.xfercfg[0] # XFERCFG[0]
    /\ 0 \in pre.regs.trig

\* C23: among the output pins, is_set_high(p) holds exactly when the last
\* of the set_high and set_low calls on p was set_high (a pin never set is
\* low), whatever was called on the other pins in between, and
\* is_set_low(p) is the negation of is_set_high(p); no call sets a bit of
\* the port that is not the bit of a pin it was made on.
C23_OutputLevelIsLastCall ==
    /\ \A p \in PinIds :
          /\ lastCall[p] = "high" => is_set_high(p)
          /\ lastCall[p] \in {"low", "none"} => ~is_set_high(p)
          /\ is_set_low(p) = ~is_set_high(p)
          /\ lastCall[p] # "none" => direction[p] = "Output"
    /\ PIN0 = {p \in PinIds : lastCall[p] = "high"}

C23_Witness ==
    \E p \in PinIds : \E q \in PinIds : \E r \in PinIds :
        /\ p < q /\ q < r
        /\ lastCall[p] = "high" /\ is_set_high(p) /\ ~is_set_low(p)
        /\ lastCall[q] = "low" /\ is_set_low(q) /\ ~is_set_high(q)
        /\ lastCall[r] = "high" /\ is_set_high(r)

\* The baud rate 12_000_000 / ((psc + 1) * (osrval + 1)) of a configuration
\* is within 5% of the baudrate asked for.
WithinTolerance(baudrate, psc, osrval) ==
    LET d == baudrate * (psc + 1) * (osrval + 1)
        diff == IF OscHz >= d THEN OscHz - d ELSE d - OscHz
    IN ToleranceFactor * diff <= d

\* C24: for every baudrate, new_with_baudrate returns a configuration, and
\* it got there with no u32 overflow, no division by zero, no underflow and
\* no truncation of psc; the stored osrval is in 4..15 and the resulting
\* baud rate is within 5% of the one asked for.
C24_BaudrateWithinTolerance ==
    probe.fn = "new_with_baudrate" =>
        /\ probe.result.tag = "ok"
        /\ probe.result.events = {}
        /\ probe.result.osrval \in 4 .. 15
        /\ WithinTolerance(probe.baudrate, probe.result.psc, probe.result.osrval)

====
